---- MODULE Spec2Model ----
(***************************************************************************)
(* Model of the encryption pipeline of lpfirst-stats-tracker:              *)
(*   scripts/encrypt.js       full-publish encrypt workflow                *)
(*   scripts/encrypt-data.js  data-only encrypt workflow                   *)
(*   scripts/decrypt.js       decrypt workflow                             *)
(* Strings are sequences of UTF-16 code units, byte arrays are sequences   *)
(* of 0..255.  A computation that can throw returns [ok, v].               *)
(***************************************************************************)
EXTENDS Bags, Integers, Sequences, FiniteSets, TLC

\* ------------------------------------------------------------------ bounds
MaxPlainLen == 2
MaxRuns == 2

\* --------------------------------------------------------------- constants
IV_BITS == 16 * 8
HEX_BITS == 4
KEY_BITS == 256
HMAC_BLOCK == 512 \div 8

Ok(x) == [ok |-> TRUE, v |-> x]
Err == [ok |-> FALSE, v |-> <<>>]

SubSeqFrom(s, i) == IF i > Len(s) THEN <<>> ELSE SubSeq(s, i, Len(s))
\* String.prototype.substring(a, b) with 0-based a <= b, clamped to the length
Substring(s, a, b) ==
  LET lo == IF a > Len(s) THEN Len(s) ELSE a
      hi == IF b > Len(s) THEN Len(s) ELSE b
  IN  IF hi <= lo THEN <<>> ELSE SubSeq(s, lo + 1, hi)

\* -------------------------------------------------------------- HexEncoder
IsDigit(c) == c >= 48 /\ c <= 57
IsHexDigit(c) == IsDigit(c) \/ (c >= 97 /\ c <= 102) \/ (c >= 65 /\ c <= 70)
HexVal(c) == IF IsDigit(c) THEN c - 48 ELSE IF c >= 97 THEN c - 87 ELSE c - 55
HexChar(n) == IF n < 10 THEN 48 + n ELSE 87 + n

\* StrWhiteSpaceChar of ECMAScript (what parseInt trims in front)
IsStrWhiteSpace(c) ==
  \/ c \in 9..13 \/ c = 32 \/ c = 160 \/ c = 5760 \/ (c >= 8192 /\ c <= 8202)
  \/ c = 8232 \/ c = 8233 \/ c = 8239 \/ c = 8287 \/ c = 12288 \/ c = 65279

RECURSIVE TrimLeft(_)
TrimLeft(s) ==
  IF s # <<>> /\ IsStrWhiteSpace(Head(s)) THEN TrimLeft(Tail(s)) ELSE s

RECURSIVE HexPrefixValue(_, _)
\* value of the longest prefix of hex digits of s, acc the value so far
HexPrefixValue(s, acc) ==
  IF s # <<>> /\ IsHexDigit(Head(s))
    THEN HexPrefixValue(Tail(s), acc * 16 + HexVal(Head(s)))
    ELSE acc

\* parseInt(s, 16): trims white space, takes a sign, strips 0x/0X, then reads
\* the longest prefix of hex digits; NaN (Err) when that prefix is empty
ParseInt16(s) ==
  LET t == TrimLeft(s)
      neg == t # <<>> /\ Head(t) = 45
      u == IF t # <<>> /\ Head(t) \in {43, 45} THEN Tail(t) ELSE t
      w == IF Len(u) >= 2 /\ u[1] = 48 /\ u[2] \in {120, 88}
             THEN SubSeqFrom(u, 3) ELSE u
  IN  IF w = <<>> \/ ~IsHexDigit(Head(w))
        THEN Err
        ELSE Ok(IF neg THEN 0 - HexPrefixValue(w, 0) ELSE HexPrefixValue(w, 0))

\* HexEncoder.parse: throws on odd length and on a pair parseInt reads as
\* NaN; a Uint8Array element holds the value modulo 256
HexParse(hexString) ==
  LET n == Len(hexString) \div 2
      byteValue == [i \in 1..n |-> ParseInt16(SubSeq(hexString, 2 * i - 1, 2 * i))] \o <<>>
  IN  IF Len(hexString) % 2 # 0 THEN Err
      ELSE IF \E i \in 1..n : ~byteValue[i].ok THEN Err
      ELSE Ok([i \in 1..n |-> byteValue[i].v % 256] \o <<>>)

\* HexEncoder.stringify without the zero of line 45: one digit for a byte
\* below 16
HexStringifyNoPad(bytes) ==
  LET digits == [j \in 1..(2 * Len(bytes)) |->
                   IF j % 2 = 0 THEN HexChar(bytes[j \div 2] % 16)
                   ELSE IF bytes[(j + 1) \div 2] < 16 THEN 0
                   ELSE HexChar(bytes[(j + 1) \div 2] \div 16)]
      Written(c) == c # 0
  IN  SelectSeq(digits, Written)

\* HexEncoder.stringify: two lowercase digits per byte
HexStringify(bytes) ==
  [j \in 1..(2 * Len(bytes)) |->
     IF j % 2 = 1 THEN HexChar(bytes[(j + 1) \div 2] \div 16)
     ELSE HexChar(bytes[j \div 2] % 16)] \o <<>>

\* ------------------------------------------------------------- UTF8Encoder
IsHighSurrogate(c) == c >= 55296 /\ c <= 56319
IsLowSurrogate(c) == c >= 56320 /\ c <= 57343
REPLACEMENT == <<239, 191, 189>>

Utf8OfCodePoint(cp) ==
  IF cp < 128 THEN <<cp>>
  ELSE IF cp < 2048 THEN <<192 + (cp \div 64), 128 + (cp % 64)>>
  ELSE IF cp < 65536
    THEN <<224 + (cp \div 4096), 128 + ((cp \div 64) % 64), 128 + (cp % 64)>>
  ELSE <<240 + (cp \div 262144), 128 + ((cp \div 4096) % 64),
         128 + ((cp \div 64) % 64), 128 + (cp % 64)>>

RECURSIVE Flatten(_, _, _)
\* pieces[lo] \o ... \o pieces[hi], joined by halves
Flatten(pieces, lo, hi) ==
  IF lo > hi THEN <<>>
  ELSE IF lo = hi THEN pieces[lo]
  ELSE LET mid == (lo + hi) \div 2
       IN  Flatten(pieces, lo, mid) \o Flatten(pieces, mid + 1, hi)

\* UTF8Encoder.parse = new TextEncoder().encode(str): a surrogate pair is one
\* code point, a lone surrogate is encoded as U+FFFD
Utf8Parse(str) ==
  LET piece(i) ==
        LET c == str[i] IN
        IF IsHighSurrogate(c) /\ i < Len(str) /\ IsLowSurrogate(str[i + 1])
          THEN Utf8OfCodePoint(65536 + (c - 55296) * 1024 + (str[i + 1] - 56320))
        ELSE IF IsLowSurrogate(c) /\ i > 1 /\ IsHighSurrogate(str[i - 1]) THEN <<>>
        ELSE IF IsHighSurrogate(c) \/ IsLowSurrogate(c) THEN REPLACEMENT
        ELSE Utf8OfCodePoint(c)
  IN  IF \A i \in 1..Len(str) : str[i] < 128 THEN str
      ELSE Flatten([i \in 1..Len(str) |-> piece(i)], 1, Len(str))

IsCont(b) == b >= 128 /\ b <= 191

\* the code units of a code point
UnitsOfCodePoint(cp) ==
  IF cp < 65536 THEN <<cp>>
  ELSE <<55296 + ((cp - 65536) \div 1024), 56320 + ((cp - 65536) % 1024)>>

RECURSIVE Utf8Decode(_)
\* the WHATWG UTF-8 decoder: an ill-formed sequence gives U+FFFD for its
\* maximal well-formed prefix and decoding resumes at the offending byte
Utf8Decode(b) ==
  IF b = <<>> THEN <<>>
  ELSE LET b1 == b[1]
           n == Len(b)
           lo2 == IF b1 = 224 THEN 160 ELSE IF b1 = 240 THEN 144 ELSE 128
           hi2 == IF b1 = 237 THEN 159 ELSE IF b1 = 244 THEN 143 ELSE 191
           need == IF b1 >= 194 /\ b1 <= 223 THEN 1
                   ELSE IF b1 >= 224 /\ b1 <= 239 THEN 2
                   ELSE IF b1 >= 240 /\ b1 <= 244 THEN 3 ELSE 0
           ok2 == n >= 2 /\ b[2] >= lo2 /\ b[2] <= hi2
           ok3 == ok2 /\ n >= 3 /\ IsCont(b[3])
           ok4 == ok3 /\ n >= 4 /\ IsCont(b[4])
       IN
    IF b1 < 128 THEN <<b1>> \o Utf8Decode(Tail(b))
    ELSE IF need = 0 THEN <<65533>> \o Utf8Decode(Tail(b))
    ELSE IF need = 1 THEN
      IF ok2 THEN <<(b1 - 192) * 64 + (b[2] - 128)>> \o Utf8Decode(SubSeqFrom(b, 3))
      ELSE <<65533>> \o Utf8Decode(Tail(b))
    ELSE IF need = 2 THEN
      IF ok3 THEN <<(b1 - 224) * 4096 + (b[2] - 128) * 64 + (b[3] - 128)>>
                    \o Utf8Decode(SubSeqFrom(b, 4))
      ELSE IF ok2 THEN <<65533>> \o Utf8Decode(SubSeqFrom(b, 3))
      ELSE <<65533>> \o Utf8Decode(Tail(b))
    ELSE
      IF ok4 THEN UnitsOfCodePoint((b1 - 240) * 262144 + (b[2] - 128) * 4096
                                     + (b[3] - 128) * 64 + (b[4] - 128))
                    \o Utf8Decode(SubSeqFrom(b, 5))
      ELSE IF ok3 THEN <<65533>> \o Utf8Decode(SubSeqFrom(b, 4))
      ELSE IF ok2 THEN <<65533>> \o Utf8Decode(SubSeqFrom(b, 3))
      ELSE <<65533>> \o Utf8Decode(Tail(b))

\* UTF8Encoder.stringify = new TextDecoder().decode(bytes): ignoreBOM is
\* false by default, so a leading byte order mark is removed from the text
Utf8Stringify(bytes) ==
  IF Len(bytes) >= 3 /\ SubSeq(bytes, 1, 3) = <<239, 187, 191>>
    THEN Utf8Decode(SubSeqFrom(bytes, 4))
    ELSE Utf8Decode(bytes)

\* -------------------------------------------------------------- JSON.parse
\* A recogniser for the JSON grammar of ECMA-404, as JSON.parse accepts it.
\* Positions are 1-based; a parser returns the position after what it read,
\* or 0 when the text is not well formed there.
At(s, i) == IF i >= 1 /\ i <= Len(s) THEN s[i] ELSE 0 - 1

RECURSIVE JWs(_, _)
JWs(s, i) == IF At(s, i) \in {9, 10, 13, 32} THEN JWs(s, i + 1) ELSE i

RECURSIVE JDigits(_, _)
JDigits(s, i) == IF At(s, i) >= 48 /\ At(s, i) <= 57 THEN JDigits(s, i + 1) ELSE i

JNumber(s, i) ==
  LET a == IF At(s, i) = 45 THEN i + 1 ELSE i
      b == IF At(s, a) = 48 THEN a + 1
           ELSE IF At(s, a) >= 49 /\ At(s, a) <= 57 THEN JDigits(s, a) ELSE 0
      c == IF b = 0 THEN 0
           ELSE IF At(s, b) = 46
             THEN (IF JDigits(s, b + 1) = b + 1 THEN 0 ELSE JDigits(s, b + 1))
           ELSE b
      d == IF At(s, c) \in {101, 69}
             THEN (IF At(s, c + 1) \in {43, 45} THEN c + 2 ELSE c + 1)
             ELSE 0
  IN  IF c = 0 THEN 0
      ELSE IF d = 0 THEN c
      ELSE IF JDigits(s, d) = d THEN 0 ELSE JDigits(s, d)

RECURSIVE JStringBody(_, _)
JStringBody(s, j) ==
  LET c == At(s, j)
      e == At(s, j + 1)
  IN  IF c < 32 THEN 0
      ELSE IF c = 34 THEN j + 1
      ELSE IF c = 92 THEN
        IF e \in {34, 92, 47, 98, 102, 110, 114, 116} THEN JStringBody(s, j + 2)
        ELSE IF e = 117 /\ \A k \in 2..5 : At(s, j + k) >= 0 /\ IsHexDigit(At(s, j + k))
          THEN JStringBody(s, j + 6)
        ELSE 0
      ELSE JStringBody(s, j + 1)

JString(s, i) == IF At(s, i) = 34 THEN JStringBody(s, i + 1) ELSE 0

JLiteral(s, i, word) ==
  IF Substring(s, i - 1, i - 1 + Len(word)) = word THEN i + Len(word) ELSE 0

RECURSIVE JValue(_, _)
RECURSIVE JElements(_, _)
RECURSIVE JMembers(_, _)

JValue(s, i) ==
  LET c == At(s, i) IN
  IF c = 123 THEN
    (IF At(s, JWs(s, i + 1)) = 125 THEN JWs(s, i + 1) + 1
     ELSE JMembers(s, JWs(s, i + 1)))
  ELSE IF c = 91 THEN
    (IF At(s, JWs(s, i + 1)) = 93 THEN JWs(s, i + 1) + 1
     ELSE JElements(s, JWs(s, i + 1)))
  ELSE IF c = 34 THEN JString(s, i)
  ELSE IF c = 45 \/ (c >= 48 /\ c <= 57) THEN JNumber(s, i)
  ELSE IF c = 116 THEN JLiteral(s, i, <<116, 114, 117, 101>>)
  ELSE IF c = 102 THEN JLiteral(s, i, <<102, 97, 108, 115, 101>>)
  ELSE IF c = 110 THEN JLiteral(s, i, <<110, 117, 108, 108>>)
  ELSE 0

\* the elements of an array from position i on, up to and with the "]"
JElements(s, i) ==
  LET v == JValue(s, i)
      k == JWs(s, v)
  IN  IF v = 0 THEN 0
      ELSE IF At(s, k) = 44 THEN JElements(s, JWs(s, k + 1))
      ELSE IF At(s, k) = 93 THEN k + 1
      ELSE 0

\* the members of an object from position i on, up to and with the "}"
JMembers(s, i) ==
  LET n == JString(s, i)
      c == JWs(s, n)
      v == IF n = 0 \/ At(s, c) # 58 THEN 0 ELSE JValue(s, JWs(s, c + 1))
      k == JWs(s, v)
  IN  IF v = 0 THEN 0
      ELSE IF At(s, k) = 44 THEN JMembers(s, JWs(s, k + 1))
      ELSE IF At(s, k) = 125 THEN k + 1
      ELSE 0

\* JSON.parse(text) does not throw
JsonParses(text) ==
  LET v == JValue(text, JWs(text, 1))
  IN  v # 0 /\ JWs(text, v) = Len(text) + 1

\* ------------------------------------------------ WebCrypto (the platform)
\* The primitives behind crypto.subtle are stand-ins that keep what the
\* scripts rely on: PBKDF2 is a deterministic function of the HMAC key made
\* of the password, the salt, the iteration count and the hash; AES-CBC is
\* a keyed bijection on 16-byte blocks, chained from the IV, over the
\* PKCS#7-padded message.
BLOCK_BYTES == IV_BITS \div 8

\* a position-weighted checksum of bytes: the weights (each one more than the
\* term it stands for) are summed as the copies of a bag
Mix(bytes) ==
  LET weights == [i \in 1..Len(bytes) |->
                    1 + (((bytes[i] + 1) * (1 + ((i * i) % 241))) % 251)]
  IN  (BagCardinality(weights) - Len(bytes)) % 251

DigestLen(hash) == IF hash = "SHA-1" THEN 20 ELSE 32

\* the hash function: a fixed-length byte string determined by the input
Digest(hash, bytes) ==
  LET m == Mix(bytes)
  IN  [i \in 1..DigestLen(hash) |-> 33 + ((m + DigestLen(hash) + 7 * i) % 94)] \o <<>>

\* RFC 2104: a key longer than the hash's block is replaced by its digest,
\* and the key is then padded with zero bytes up to the block length
HmacKey(keyBytes, hash) ==
  LET k == IF Len(keyBytes) > HMAC_BLOCK THEN Digest(hash, keyBytes) ELSE keyBytes
  IN  k \o [i \in 1..(HMAC_BLOCK - Len(k)) |-> 0]

\* crypto.subtle.deriveBits({name: 'PBKDF2', hash, iterations, salt}, key, bits)
DeriveBits(keyBytes, saltBytes, iterations, hash, bits) ==
  LET seed == (Mix(HmacKey(keyBytes, hash)) * 7 + Mix(saltBytes) * 13
                 + iterations + DigestLen(hash)) % 251
  IN  [i \in 1..(bits \div 8) |-> (seed * (2 * i - 1) + 17 * i) % 256] \o <<>>

\* the block permutation of the cipher under key, and its inverse
BlockEncrypt(key, block) ==
  [i \in 1..BLOCK_BYTES |-> (block[i] + key[i] + 3 * key[BLOCK_BYTES + i]) % 256] \o <<>>
BlockDecrypt(key, block) ==
  [i \in 1..BLOCK_BYTES |-> (block[i] - key[i] - 3 * key[BLOCK_BYTES + i]) % 256] \o <<>>

BlockAdd(a, b) == [i \in 1..BLOCK_BYTES |-> (a[i] + b[i]) % 256] \o <<>>
BlockSub(a, b) == [i \in 1..BLOCK_BYTES |-> (a[i] - b[i]) % 256] \o <<>>

Pkcs7Pad(bytes) ==
  LET n == BLOCK_BYTES - (Len(bytes) % BLOCK_BYTES)
  IN  bytes \o [i \in 1..n |-> n]

\* the padded message without its padding, or Err when the padding is bad
Pkcs7Unpad(bytes) ==
  LET n == bytes[Len(bytes)]
  IN  IF n < 1 \/ n > BLOCK_BYTES THEN Err
      ELSE IF \E i \in (Len(bytes) - n + 1)..Len(bytes) : bytes[i] # n THEN Err
      ELSE Ok(SubSeq(bytes, 1, Len(bytes) - n))

RECURSIVE CbcEncryptBlocks(_, _, _)
CbcEncryptBlocks(key, prev, padded) ==
  IF padded = <<>> THEN <<>>
  ELSE LET c == BlockEncrypt(key, BlockAdd(SubSeq(padded, 1, BLOCK_BYTES), prev))
       IN  c \o CbcEncryptBlocks(key, c, SubSeqFrom(padded, BLOCK_BYTES + 1))

RECURSIVE CbcDecryptBlocks(_, _, _)
CbcDecryptBlocks(key, prev, data) ==
  IF data = <<>> THEN <<>>
  ELSE LET c == SubSeq(data, 1, BLOCK_BYTES)
       IN  BlockSub(BlockDecrypt(key, c), prev)
             \o CbcDecryptBlocks(key, c, SubSeqFrom(data, BLOCK_BYTES + 1))

\* importKey('raw', bytes, 'AES-CBC', ...) takes 128, 192 or 256 bits only
AesKeyOk(keyBytes) == Len(keyBytes) * 8 \in {128, 192, KEY_BITS}

\* crypto.subtle.encrypt({name: 'AES-CBC', iv}, key, data)
SubtleEncrypt(keyBytes, iv, data) ==
  IF ~AesKeyOk(keyBytes) \/ Len(keyBytes) * 8 # KEY_BITS \/ Len(iv) # BLOCK_BYTES
    THEN Err
    ELSE Ok(CbcEncryptBlocks(keyBytes, iv, Pkcs7Pad(data)))

\* crypto.subtle.decrypt({name: 'AES-CBC', iv}, key, data): an OperationError
\* for an IV that is not one block, data that is not a positive number of
\* whole blocks, or bad padding
SubtleDecrypt(keyBytes, iv, data) ==
  IF ~AesKeyOk(keyBytes) \/ Len(keyBytes) * 8 # KEY_BITS \/ Len(iv) # BLOCK_BYTES
       \/ data = <<>> \/ Len(data) % BLOCK_BYTES # 0
    THEN Err
    ELSE Pkcs7Unpad(CbcDecryptBlocks(keyBytes, iv, data))

\* ---------------------------------------------------------------- inputs
\* what getRandomValues can return (two of the 2^128 values of 16 bytes)
RandomBlocks ==
  {[i \in 1..BLOCK_BYTES |-> (16 * i + 3) % 256], [i \in 1..BLOCK_BYTES |-> 255 - i]}

\* generateRandomSalt()
Salts == {HexStringify(b) : b \in RandomBlocks}
Salt0 == HexStringify([i \in 1..BLOCK_BYTES |-> (16 * i + 3) % 256])
IV0 == [i \in 1..BLOCK_BYTES |-> 255 - i]


\* process.env.STATICRYPT_PASSWORD: undefined, or a string
Undefined == [set |-> FALSE, val |-> <<>>]
Defined(str) == [set |-> TRUE, val |-> str]
Pw1 == <<112, 119>>
LongPw == [i \in 1..(HMAC_BLOCK + 1) |-> 97]
TwinPw == Digest("SHA-1", Utf8Parse(LongPw))
Passwords == {Pw1, LongPw, TwinPw}
EnvValues == {Undefined, Defined(<<>>)} \cup {Defined(w) : w \in Passwords}

\* ------------------------------------------------------- the scripts' code
\* pbkdf2(password, salt, iterations, hashAlgorithm)
pbkdf2(password, salt, iterations, hashAlgorithm) ==
  HexStringify(DeriveBits(Utf8Parse(password), Utf8Parse(salt), iterations,
                          hashAlgorithm, KEY_BITS))

\* hashPassword as one pass of the 600,000 iterations
hashPasswordOnePass(password, salt) == pbkdf2(password, salt, 600000, "SHA-256")

\* hashPassword(password, salt): the three chained rounds
hashPassword(password, salt) ==
  LET round1 == pbkdf2(password, salt, 1000, "SHA-1")
      round2 == pbkdf2(round1, salt, 14000, "SHA-256")
  IN  pbkdf2(round2, salt, 585000, "SHA-256")

\* encrypt-data.js has its own copy of pbkdf2 and hashPassword (220-238)
pbkdf2Data(password, salt, iterations, hashAlgorithm) ==
  HexStringify(DeriveBits(Utf8Parse(password), Utf8Parse(salt), iterations,
                          hashAlgorithm, KEY_BITS))

hashPasswordData(password, salt) ==
  LET round1 == pbkdf2Data(password, salt, 1000, "SHA-1")
      round2 == pbkdf2Data(round1, salt, 14000, "SHA-256")
  IN  pbkdf2Data(round2, salt, 585000, "SHA-256")

\* and so has decrypt.js (222-237)
pbkdf2Decrypt(password, salt, iterations, hashAlgorithm) ==
  HexStringify(DeriveBits(Utf8Parse(password), Utf8Parse(salt), iterations,
                          hashAlgorithm, KEY_BITS))

\* the hashPassword of decrypt.js without its second round
hashPasswordDecryptTwoRounds(password, salt) ==
  LET round1 == pbkdf2Decrypt(password, salt, 1000, "SHA-1")
  IN  pbkdf2Decrypt(round1, salt, 585000, "SHA-256")

hashPasswordDecrypt(password, salt) ==
  LET round1 == pbkdf2Decrypt(password, salt, 1000, "SHA-1")
      round2 == pbkdf2Decrypt(round1, salt, 14000, "SHA-256")
  IN  pbkdf2Decrypt(round2, salt, 585000, "SHA-256")

\* encrypt with the IV put after the ciphertext
encryptIvLast(msg, hashedPassword, iv) ==
  LET key == HexParse(hashedPassword)
      encrypted == IF key.ok THEN SubtleEncrypt(key.v, iv, Utf8Parse(msg)) ELSE Err
  IN  IF encrypted.ok THEN Ok(HexStringify(encrypted.v) \o HexStringify(iv)) ELSE Err

\* encrypt that writes the same 32 characters in front whatever IV it drew
encryptStaleIvPrefix(msg, hashedPassword, iv) ==
  LET key == HexParse(hashedPassword)
      encrypted == IF key.ok THEN SubtleEncrypt(key.v, iv, Utf8Parse(msg)) ELSE Err
  IN  IF encrypted.ok THEN Ok(HexStringify(IV0) \o HexStringify(encrypted.v)) ELSE Err

\* encrypt(msg, hashedPassword), iv being the value getRandomValues returned
encrypt(msg, hashedPassword, iv) ==
  LET key == HexParse(hashedPassword)
      encrypted == IF key.ok THEN SubtleEncrypt(key.v, iv, Utf8Parse(msg)) ELSE Err
  IN  IF encrypted.ok THEN Ok(HexStringify(iv) \o HexStringify(encrypted.v)) ELSE Err

\* decrypt with the IV length counted in bytes instead of hex digits
decryptIvInBytes(encryptedMsg, hashedPassword) ==
  LET ivLength == IV_BITS \div 8
      iv == HexParse(Substring(encryptedMsg, 0, ivLength))
      encrypted == HexParse(SubSeqFrom(encryptedMsg, ivLength + 1))
      key == HexParse(hashedPassword)
      outBuffer == IF iv.ok /\ encrypted.ok /\ key.ok
                     THEN SubtleDecrypt(key.v, iv.v, encrypted.v) ELSE Err
  IN  IF outBuffer.ok THEN Ok(Utf8Stringify(outBuffer.v)) ELSE Err

\* decrypt(encryptedMsg, hashedPassword)
decrypt(encryptedMsg, hashedPassword) ==
  LET ivLength == IV_BITS \div HEX_BITS
      iv == HexParse(Substring(encryptedMsg, 0, ivLength))
      encrypted == HexParse(SubSeqFrom(encryptedMsg, ivLength + 1))
      key == HexParse(hashedPassword)
      outBuffer == IF iv.ok /\ encrypted.ok /\ key.ok
                     THEN SubtleDecrypt(key.v, iv.v, encrypted.v) ELSE Err
  IN  IF outBuffer.ok THEN Ok(Utf8Stringify(outBuffer.v)) ELSE Err

\* --------------------------------------------------------------- the files
\* data/stats.json and data/stats.json.enc hold text; .staticrypt.json holds
\* JSON text that is either { "salt": <hex> } or does not parse; index.html,
\* index.html.bak and encrypted/index.html hold documents (token sequences).
NoFile == [exists |-> FALSE, content |-> <<>>]
File(c) == [exists |-> TRUE, content |-> c]
NoConfig == [exists |-> FALSE, json |-> FALSE, salt |-> <<>>]
ConfigFile(s) == [exists |-> TRUE, json |-> TRUE, salt |-> s]
CorruptConfig == [exists |-> TRUE, json |-> FALSE, salt |-> <<>>]

\* the plaintext contents: texts of "1" and U+FEFF up to MaxPlainLen units
PlainChars == {49, 65279}
Contents == UNION {[1..n -> PlainChars] : n \in 0..MaxPlainLen}

\* the documents
Tok(kind, s) == [k |-> kind, salt |-> s]
HEAD_CLOSE == Tok("</head>", <<>>)
LOAD_DATA == Tok("loadData", <<>>)
NEW_LOAD_DATA == Tok("newLoadData", <<>>)
TITLE == Tok("staticrypt-title", <<>>)
LOGO == Tok("logo", <<>>)
REMEMBER_CHECKED == Tok("isRememberEnabled && isRememberChecked", <<>>)
REMEMBER_ENABLED == Tok("isRememberEnabled", <<>>)
PAYLOAD == Tok("payload", <<>>)
CryptoScript(s) == Tok("cryptoScript", s)
OriginalIndex == <<HEAD_CLOSE, LOAD_DATA>>

\* String.prototype.replace(pattern, replacement): the first match only;
\* a pattern is the set of the tokens it matches
ReplaceFirst(doc, pattern, replacement) ==
  IF \E i \in 1..Len(doc) : doc[i] \in pattern
    THEN LET i == CHOOSE j \in 1..Len(doc) :
                    doc[j] \in pattern /\ \A h \in 1..(j - 1) : doc[h] \notin pattern
         IN  SubSeq(doc, 1, i - 1) \o replacement \o SubSeqFrom(doc, i + 1)
    ELSE doc

\* the regular expression for loadData matches the original function and
\* the function the script puts in its place
MatchesLoadData == {LOAD_DATA, NEW_LOAD_DATA}
MatchesHeadClose == {HEAD_CLOSE}
MatchesTitle == {TITLE}
MatchesRemember == {REMEMBER_CHECKED}

\* encrypt.js 143-247: inject the script before </head>, replace loadData
PatchIndex(indexHtml, s) ==
  ReplaceFirst(ReplaceFirst(indexHtml, MatchesHeadClose, <<CryptoScript(s), HEAD_CLOSE>>),
               MatchesLoadData, <<NEW_LOAD_DATA>>)

\* what StatiCrypt writes to encrypted/index.html
GeneratorOutput == <<TITLE, REMEMBER_CHECKED, PAYLOAD>>
\* a page of the generator that tests the checkbox in two places
TwoGatesOutput == <<TITLE, REMEMBER_CHECKED, PAYLOAD, REMEMBER_CHECKED>>
GeneratorOutputs == {GeneratorOutput, TwoGatesOutput}

\* how execSync ends: the command failed, or it succeeded and has written
\* encrypted/index.html, or it succeeded and has written elsewhere
GeneratorOutcomes ==
  {[kind |-> "failed", out |-> <<>>], [kind |-> "elsewhere", out |-> <<>>]}
    \cup {[kind |-> "written", out |-> o] : o \in GeneratorOutputs}

\* the post-processing without the replacement of 285-288
PostProcessLogoOnly(encryptedHtml) ==
  ReplaceFirst(encryptedHtml, MatchesTitle, <<LOGO, TITLE>>)

\* encrypt.js 273-287: add the logo, always store the password
PostProcess(encryptedHtml) ==
  ReplaceFirst(ReplaceFirst(encryptedHtml, MatchesTitle, <<LOGO, TITLE>>),
               MatchesRemember, <<REMEMBER_ENABLED>>)

\* ---------------------------------------------------------------- the state
VARIABLES
  fs,              \* the files: config, data, enc, index, bak, gen
  password,        \* the environment variable of the current run
  mode,            \* the script that runs: "publish", "data" or "decrypt"
  pc,              \* where the script is
  salt,            \* its local: config.salt
  exitCode,        \* the exit code of the run, -1 while it runs
  start,           \* the files when the run started
  runs,            \* the number of runs started
  encBy,           \* the password, salt and text the file enc was made with
  log,             \* the lines the current run wrote to the console
  clock,           \* the instant new Date() gives the scraper
  statsFile,       \* data/stats.json as JSON.parse reads it, Null if it cannot
  stats,           \* the scraper's local: the object loadStats returned
  daily,           \* the scraper's option
  snapshot,        \* the scraper's local: the snapshot of this run
  spc,             \* where the scraper is
  scraperExit,     \* the exit code of the scraper, -1 while it runs
  sruns            \* the number of scraper runs started

scraperVars == <<clock, statsFile, stats, daily, snapshot, spc, scraperExit, sruns>>
scriptVars == <<fs, password, mode, pc, salt, exitCode, start, runs, encBy, log>>
vars == <<scriptVars, scraperVars>>

\* null and undefined
Null == [null |-> TRUE]

Modes == {"publish", "data", "decrypt"}

\* an artifact that an earlier deployment left: "1" under Pw1 and Salt0
Artifact0 == encrypt(<<49>>, hashPassword(Pw1, Salt0), IV0).v
Made(pw, s, msg) == [pw |-> pw, salt |-> s, msg |-> msg]

\* that artifact damaged in storage: "-2" in the place of its first pair
\* "fe", "zz" in the place of that pair, its last character lost, and the
\* four characters "0123"
SignedPairArtifact == <<45, 50>> \o SubSeqFrom(Artifact0, 3)
NonHexArtifact == <<122, 122>> \o SubSeqFrom(Artifact0, 3)
OddArtifact == SubSeq(Artifact0, 1, Len(Artifact0) - 1)
ShortArtifact == <<48, 49, 50, 51>>
DamagedArtifacts == {SignedPairArtifact, NonHexArtifact, OddArtifact, ShortArtifact}

Init ==
  /\ \/ fs \in [config : {NoConfig, ConfigFile(Salt0), CorruptConfig},
                data : {NoFile} \cup {File(c) : c \in Contents},
                enc : {NoFile, File(Artifact0)},
                index : {File(OriginalIndex)},
                bak : {NoFile},
                gen : {NoFile}]
     \/ fs \in [config : {ConfigFile(Salt0)},
                data : {NoFile, File(<<49, 49>>)},
                enc : {File(a) : a \in DamagedArtifacts},
                index : {File(OriginalIndex)},
                bak : {NoFile},
                gen : {NoFile}]
  /\ password = Undefined
  /\ mode = "publish"
  /\ pc = "idle"
  /\ salt = <<>>
  /\ exitCode = 0 - 1
  /\ start = fs
  /\ runs = 0
  /\ encBy = IF fs.enc.exists THEN Made(Pw1, Salt0, <<49>>) ELSE Made(<<>>, <<>>, <<>>)
  /\ log = <<>>
  /\ clock = 0
  /\ statsFile = Null
  /\ stats = Null
  /\ daily = FALSE
  /\ snapshot = Null
  /\ spc = "idle"
  /\ scraperExit = 0 - 1
  /\ sruns = 0

\* ------------------------------------------------------------ the console
\* console.log and console.error: a line is a sequence of pieces, each a
\* literal text of the script or a value computed at run time
Lit(text) == [lit |-> text, val |-> <<>>]
Val(v) == [lit |-> "", val |-> v]
Line(text) == <<Lit(text)>>
Say(lines) == log' = log \o lines

\* the command line handed to execSync, 258-262
StatiCryptCommand(pw) ==
  <<Lit("npx staticrypt index.html -p \""), Val(pw),
    Lit("\" --short --remember 30 --template-title \"\" ...")>>

\* error.message of the Error execSync throws when the command exits with a
\* non-zero status: "Command failed: " followed by the command
CommandFailedMessage(cmd) == <<Lit("Command failed: ")>> \o cmd

\* error.message in the catch of decrypt.js: the text HexEncoder.parse
\* throws, the message of the OperationError of crypto.subtle.decrypt, or
\* the message of the SyntaxError of JSON.parse, which quotes the text
DecryptErrorMessage(encryptedMsg, decryptedData) ==
  IF decryptedData.ok
    THEN <<Lit("Unexpected token in JSON: "), Val(decryptedData.v)>>
  ELSE IF ~HexParse(Substring(encryptedMsg, 0, IV_BITS \div HEX_BITS)).ok
          \/ ~HexParse(SubSeqFrom(encryptedMsg, (IV_BITS \div HEX_BITS) + 1)).ok
    THEN <<Lit("Invalid hexString")>>
  ELSE <<Lit("The operation failed for an operation-specific reason")>>

\* process.exit(code), or the end of main
Exit(code) == pc' = "done" /\ exitCode' = code

\* !password
Falsy(pw) == ~pw.set \/ pw.val = <<>>

\* the operator starts a script with some value of the variable
StartRun ==
  /\ pc \in {"idle", "done"}
  /\ runs < MaxRuns
  /\ \E m \in Modes, pw \in EnvValues :
       /\ mode' = m
       /\ password' = pw
  /\ pc' = "check"
  /\ salt' = <<>>
  /\ exitCode' = 0 - 1
  /\ start' = fs
  /\ runs' = runs + 1
  /\ log' = <<>>
  /\ UNCHANGED <<fs, encBy>>
  /\ UNCHANGED scraperVars

\* ------------------------------------------------------- scripts/encrypt.js
\* main without the test of the password
EncryptCheckNoPassword ==
  /\ pc = "check" /\ mode = "publish"
  /\ IF ~fs.data.exists THEN Exit(1)
     ELSE pc' = "config" /\ UNCHANGED exitCode
  /\ Say(IF ~fs.data.exists THEN <<Line("Error: data/stats.json not found. Run the scraper first.")>> ELSE <<>>)
  /\ UNCHANGED <<fs, password, mode, salt, start, runs, encBy>>
  /\ UNCHANGED scraperVars

\* main without the test of the data file
EncryptCheckNoData ==
  /\ pc = "check" /\ mode = "publish"
  /\ IF Falsy(password) THEN Exit(1)
     ELSE pc' = "config" /\ UNCHANGED exitCode
  /\ Say(IF Falsy(password) THEN <<Line("Error: STATICRYPT_PASSWORD environment variable is required"),
              Line("Add STATICRYPT_PASSWORD=your-password to your .env file")>> ELSE <<>>)
  /\ UNCHANGED <<fs, password, mode, salt, start, runs, encBy>>
  /\ UNCHANGED scraperVars

\* main, 103-114
EncryptCheck ==
  /\ pc = "check" /\ mode = "publish"
  /\ IF Falsy(password) THEN Exit(1)
     ELSE IF ~fs.data.exists THEN Exit(1)
     ELSE pc' = "config" /\ UNCHANGED exitCode
  /\ Say(IF Falsy(password)
           THEN <<Line("Error: STATICRYPT_PASSWORD environment variable is required"),
              Line("Add STATICRYPT_PASSWORD=your-password to your .env file")>>
         ELSE IF ~fs.data.exists THEN <<Line("Error: data/stats.json not found. Run the scraper first.")>>
         ELSE <<>>)
  /\ UNCHANGED <<fs, password, mode, salt, start, runs, encBy>>
  /\ UNCHANGED scraperVars

\* loadOrCreateConfig without the existsSync test: a new salt on every run
loadOrCreateConfigAlways ==
  /\ pc = "config" /\ mode = "publish"
  /\ \E s \in Salts :
       /\ fs' = [fs EXCEPT !.config = ConfigFile(s)]
       /\ salt' = s
       /\ pc' = "encrypt"
       /\ UNCHANGED exitCode
  /\ Say(<<Line("Generated new salt and saved to .staticrypt.json")>>)
  /\ UNCHANGED <<password, mode, start, runs, encBy>>
  /\ UNCHANGED scraperVars

\* loadOrCreateConfig that only loads: a missing Config ends the run
loadConfigOnly ==
  /\ pc = "config" /\ mode = "publish"
  /\ IF fs.config.exists /\ fs.config.json
       THEN salt' = fs.config.salt /\ pc' = "encrypt" /\ UNCHANGED exitCode
       ELSE Exit(1) /\ UNCHANGED salt
  /\ Say(IF fs.config.exists /\ fs.config.json
           THEN <<Line("Loaded salt from .staticrypt.json")>>
           ELSE <<Line("Error: .staticrypt.json not found. Run npm run encrypt first.")>>)
  /\ UNCHANGED <<fs, password, mode, start, runs, encBy>>
  /\ UNCHANGED scraperVars

\* loadOrCreateConfig, 90-100, called at 117
loadOrCreateConfig ==
  /\ pc = "config" /\ mode = "publish"
  /\ IF fs.config.exists
       THEN IF fs.config.json
              THEN salt' = fs.config.salt /\ pc' = "encrypt"
                     /\ UNCHANGED <<fs, exitCode>>
              ELSE Exit(1) /\ UNCHANGED <<fs, salt>>
       ELSE \E s \in Salts :
              /\ fs' = [fs EXCEPT !.config = ConfigFile(s)]
              /\ salt' = s
              /\ pc' = "encrypt"
              /\ UNCHANGED exitCode
  /\ Say(IF ~fs.config.exists
           THEN <<Line("Generated new salt and saved to .staticrypt.json")>>
         ELSE IF fs.config.json THEN <<Line("Loaded salt from .staticrypt.json")>>
         ELSE <<<<Lit("Encryption failed:"), Lit("SyntaxError: .staticrypt.json is not valid JSON")>>>>)
  /\ UNCHANGED <<password, mode, start, runs, encBy>>
  /\ UNCHANGED scraperVars

\* main with the unlinkSync of 298 placed right after the write of 127
EncryptDataThenUnlink ==
  /\ pc = "encrypt" /\ mode = "publish"
  /\ LET hashedPassword == hashPassword(password.val, salt)
     IN  \E iv \in RandomBlocks :
           fs' = [fs EXCEPT !.enc = File(encrypt(fs.data.content, hashedPassword, iv).v),
                            !.data = NoFile]
  /\ encBy' = Made(password.val, salt, fs.data.content)
  /\ pc' = "backup"
  /\ Say(<<Line("Hashing password with PBKDF2 (600k iterations)..."),
           Line("Encrypting data/stats.json..."),
           Line("Created data/stats.json.enc")>>)
  /\ UNCHANGED <<password, mode, salt, exitCode, start, runs>>
  /\ UNCHANGED scraperVars

\* main, 120-128: hash the password, encrypt the data file, write it
EncryptData ==
  /\ pc = "encrypt" /\ mode = "publish"
  /\ LET hashedPassword == hashPassword(password.val, salt)
     IN  \E iv \in RandomBlocks :
           fs' = [fs EXCEPT !.enc = File(encrypt(fs.data.content, hashedPassword, iv).v)]
  /\ encBy' = Made(password.val, salt, fs.data.content)
  /\ pc' = "backup"
  /\ Say(<<Line("Hashing password with PBKDF2 (600k iterations)..."),
           Line("Encrypting data/stats.json..."),
           Line("Created data/stats.json.enc")>>)
  /\ UNCHANGED <<password, mode, salt, exitCode, start, runs>>
  /\ UNCHANGED scraperVars

\* main without the existsSync test of 131: index.html is copied to the
\* backup in every run
BackupIndexEveryRun ==
  /\ pc = "backup" /\ mode = "publish"
  /\ IF fs.index.exists
       THEN fs' = [fs EXCEPT !.bak = fs.index] /\ pc' = "patch" /\ UNCHANGED exitCode
       ELSE Exit(1) /\ UNCHANGED fs
  /\ Say(IF fs.index.exists THEN <<Line("Created index.html.bak")>>
         ELSE <<<<Lit("Encryption failed:"), Lit("ENOENT: no such file or directory, copyfile")>>>>)
  /\ UNCHANGED <<password, mode, salt, start, runs, encBy>>
  /\ UNCHANGED scraperVars

\* main, 130-138: copyFileSync throws when index.html is missing
BackupIndex ==
  /\ pc = "backup" /\ mode = "publish"
  /\ IF fs.bak.exists
       THEN fs' = [fs EXCEPT !.index = fs.bak] /\ pc' = "patch" /\ UNCHANGED exitCode
     ELSE IF fs.index.exists
       THEN fs' = [fs EXCEPT !.bak = fs.index] /\ pc' = "patch" /\ UNCHANGED exitCode
     ELSE Exit(1) /\ UNCHANGED fs
  /\ Say(IF fs.bak.exists THEN <<Line("Restored index.html from backup")>>
         ELSE IF fs.index.exists THEN <<Line("Created index.html.bak")>>
         ELSE <<<<Lit("Encryption failed:"), Lit("ENOENT: no such file or directory, copyfile")>>>>)
  /\ UNCHANGED <<password, mode, salt, start, runs, encBy>>
  /\ UNCHANGED scraperVars

\* main embedding the derived key in the script in the place of the salt
WritePatchedIndexEmbedsKey ==
  /\ pc = "patch" /\ mode = "publish"
  /\ fs' = [fs EXCEPT !.index =
                File(PatchIndex(fs.index.content, hashPassword(password.val, salt)))]
  /\ pc' = "generate"
  /\ Say(<<Line("Modified index.html with crypto engine and encrypted data loading")>>)
  /\ UNCHANGED <<password, mode, salt, exitCode, start, runs, encBy>>
  /\ UNCHANGED scraperVars

\* main, 140-251
WritePatchedIndex ==
  /\ pc = "patch" /\ mode = "publish"
  /\ fs' = [fs EXCEPT !.index = File(PatchIndex(fs.index.content, salt))]
  /\ pc' = "generate"
  /\ Say(<<Line("Modified index.html with crypto engine and encrypted data loading")>>)
  /\ UNCHANGED <<password, mode, salt, exitCode, start, runs, encBy>>
  /\ UNCHANGED scraperVars

\* main without the process.exit(1) of 267: the run goes on after a failure
RunStatiCryptNoExit ==
  /\ pc = "generate" /\ mode = "publish"
  /\ \E outcome \in GeneratorOutcomes :
       /\ fs' = IF outcome.kind = "written"
                   THEN [fs EXCEPT !.gen = File(outcome.out)] ELSE fs
       /\ Say(IF outcome.kind = "failed"
                THEN <<Line("Running StatiCrypt to encrypt index.html..."),
                       <<Lit("StatiCrypt encryption failed:")>>
                         \o CommandFailedMessage(StatiCryptCommand(password.val))>>
                ELSE <<Line("Running StatiCrypt to encrypt index.html...")>>)
  /\ pc' = "post"
  /\ UNCHANGED <<password, mode, salt, exitCode, start, runs, encBy>>
  /\ UNCHANGED scraperVars

\* main, 253-268: execSync throws when StatiCrypt exits with a non-zero
\* status; when it succeeds it has written encrypted/index.html, or has
\* written its output elsewhere
RunStatiCrypt ==
  /\ pc = "generate" /\ mode = "publish"
  /\ \E outcome \in GeneratorOutcomes :
       IF outcome.kind = "failed"
         THEN /\ Exit(1) /\ UNCHANGED fs
              /\ Say(<<Line("Running StatiCrypt to encrypt index.html..."),
                       <<Lit("StatiCrypt encryption failed:")>>
                         \o CommandFailedMessage(StatiCryptCommand(password.val))>>)
         ELSE /\ fs' = IF outcome.kind = "written"
                         THEN [fs EXCEPT !.gen = File(outcome.out)] ELSE fs
              /\ pc' = "post"
              /\ UNCHANGED exitCode
              /\ Say(<<Line("Running StatiCrypt to encrypt index.html...")>>)
  /\ UNCHANGED <<password, mode, salt, start, runs, encBy>>
  /\ UNCHANGED scraperVars

\* main, 270-294
PostProcessOutput ==
  /\ pc = "post" /\ mode = "publish"
  /\ fs' = IF fs.gen.exists
             THEN [fs EXCEPT !.index = File(PostProcess(fs.gen.content)),
                             !.gen = NoFile]
             ELSE fs
  /\ pc' = "cleanup"
  /\ Say(IF fs.gen.exists
           THEN <<Line("Added logo and modified password storage")>>
           ELSE <<Line("Warning: encrypted/index.html not found after StatiCrypt")>>)
  /\ UNCHANGED <<password, mode, salt, exitCode, start, runs, encBy>>
  /\ UNCHANGED scraperVars

\* the end of main without the unlinkSync
CleanupKeepsPlaintext ==
  /\ pc = "cleanup" /\ mode = "publish"
  /\ Exit(0)
  /\ Say(<<Line("Encryption complete!")>>)
  /\ UNCHANGED <<fs, password, mode, salt, start, runs, encBy>>
  /\ UNCHANGED scraperVars

\* main, 296-307
Cleanup ==
  /\ pc = "cleanup" /\ mode = "publish"
  /\ fs' = IF fs.data.exists THEN [fs EXCEPT !.data = NoFile] ELSE fs
  /\ Exit(0)
  /\ Say((IF fs.data.exists
            THEN <<Line("Cleaned up data/stats.json (stats.json.enc is source of truth)")>>
            ELSE <<>>)
         \o <<Line("Encryption complete!"),
              Line("  - index.html is now encrypted (password prompt)"),
              Line("  - data/stats.json.enc contains encrypted data (source of truth)"),
              Line("  - Original index.html is backed up to index.html.bak"),
              Line("To test: npm run serve")>>)
  /\ UNCHANGED <<password, mode, salt, start, runs, encBy>>
  /\ UNCHANGED scraperVars

\* -------------------------------------------------- scripts/encrypt-data.js
\* main of encrypt-data.js with the load-or-create of encrypt.js in the place
\* of the existsSync test of 261
DataCheckCreatesConfig ==
  /\ pc = "check" /\ mode = "data"
  /\ IF Falsy(password) THEN Exit(1) /\ UNCHANGED <<fs, salt>>
     ELSE IF ~fs.data.exists THEN Exit(1) /\ UNCHANGED <<fs, salt>>
     ELSE IF ~fs.config.exists
       THEN \E s \in Salts :
              /\ fs' = [fs EXCEPT !.config = ConfigFile(s)]
              /\ salt' = s /\ pc' = "encrypt" /\ UNCHANGED exitCode
     ELSE IF ~fs.config.json THEN Exit(1) /\ UNCHANGED <<fs, salt>>
     ELSE salt' = fs.config.salt /\ pc' = "encrypt" /\ UNCHANGED <<fs, exitCode>>
  /\ Say(IF Falsy(password) THEN <<Line("Error: STATICRYPT_PASSWORD environment variable is required")>>
         ELSE IF ~fs.data.exists THEN <<Line("Error: data/stats.json not found. Run the scraper first.")>>
         ELSE IF ~fs.config.exists
           THEN <<Line("Generated new salt and saved to .staticrypt.json")>>
         ELSE IF ~fs.config.json THEN <<<<Lit("Encryption failed:"), Lit("SyntaxError: .staticrypt.json is not valid JSON")>>>>
         ELSE <<>>)
  /\ UNCHANGED <<password, mode, start, runs, encBy>>
  /\ UNCHANGED scraperVars

\* main, 248-266: JSON.parse throws on a config that does not parse
DataCheck ==
  /\ pc = "check" /\ mode = "data"
  /\ IF Falsy(password) THEN Exit(1) /\ UNCHANGED salt
     ELSE IF ~fs.data.exists THEN Exit(1) /\ UNCHANGED salt
     ELSE IF ~fs.config.exists THEN Exit(1) /\ UNCHANGED salt
     ELSE IF ~fs.config.json THEN Exit(1) /\ UNCHANGED salt
     ELSE salt' = fs.config.salt /\ pc' = "encrypt" /\ UNCHANGED exitCode
  /\ Say(IF Falsy(password) THEN <<Line("Error: STATICRYPT_PASSWORD environment variable is required")>>
         ELSE IF ~fs.data.exists THEN <<Line("Error: data/stats.json not found. Run the scraper first.")>>
         ELSE IF ~fs.config.exists
           THEN <<Line("Error: .staticrypt.json not found. Run npm run encrypt first.")>>
         ELSE IF ~fs.config.json THEN <<<<Lit("Encryption failed:"), Lit("SyntaxError: .staticrypt.json is not valid JSON")>>>>
         ELSE <<>>)
  /\ UNCHANGED <<fs, password, mode, start, runs, encBy>>
  /\ UNCHANGED scraperVars

\* the unlinkSync of 278 moved before the encryption
DataEncryptUnlinkFirst ==
  /\ pc = "encrypt" /\ mode = "data"
  /\ fs' = [fs EXCEPT !.data = NoFile]
  /\ pc' = "cleanup"
  /\ Say(<<Line("Hashing password with PBKDF2 (600k iterations)...")>>)
  /\ UNCHANGED <<password, mode, salt, exitCode, start, runs, encBy>>
  /\ UNCHANGED scraperVars

\* main, 268-275
DataEncrypt ==
  /\ pc = "encrypt" /\ mode = "data"
  /\ LET hashedPassword == hashPasswordData(password.val, salt)
     IN  \E iv \in RandomBlocks :
           fs' = [fs EXCEPT !.enc = File(encrypt(fs.data.content, hashedPassword, iv).v)]
  /\ encBy' = Made(password.val, salt, fs.data.content)
  /\ pc' = "cleanup"
  /\ Say(<<Line("Hashing password with PBKDF2 (600k iterations)..."), Line("Encrypting data/stats.json...")>>)
  /\ UNCHANGED <<password, mode, salt, exitCode, start, runs>>
  /\ UNCHANGED scraperVars

\* main, 277-281
DataCleanup ==
  /\ pc = "cleanup" /\ mode = "data"
  /\ fs' = [fs EXCEPT !.data = NoFile]
  /\ Exit(0)
  /\ Say(<<Line("Data encrypted to data/stats.json.enc")>>)
  /\ UNCHANGED <<password, mode, salt, start, runs, encBy>>
  /\ UNCHANGED scraperVars

\* ------------------------------------------------------- scripts/decrypt.js
\* decrypt.js with loadOrCreateConfig in the place of the existsSync test
DecryptCheckCreatesConfig ==
  /\ pc = "check" /\ mode = "decrypt"
  /\ IF Falsy(password) THEN Exit(1) /\ UNCHANGED <<fs, salt>>
     ELSE IF ~fs.enc.exists THEN Exit(0) /\ UNCHANGED <<fs, salt>>
     ELSE IF ~fs.config.exists
       THEN \E s \in Salts :
              /\ fs' = [fs EXCEPT !.config = ConfigFile(s)]
              /\ salt' = s /\ pc' = "decrypt" /\ UNCHANGED exitCode
     ELSE IF ~fs.config.json THEN Exit(1) /\ UNCHANGED <<fs, salt>>
     ELSE salt' = fs.config.salt /\ pc' = "decrypt" /\ UNCHANGED <<fs, exitCode>>
  /\ Say(IF Falsy(password) THEN <<Line("Error: STATICRYPT_PASSWORD environment variable is required")>>
         ELSE IF ~fs.enc.exists
           THEN <<Line("No encrypted data file found (data/stats.json.enc)"),
                  Line("This is normal for initial setup - scraper will create stats.json")>>
         ELSE IF fs.config.exists /\ ~fs.config.json THEN <<<<Lit("Decryption failed:"), Lit("SyntaxError: .staticrypt.json is not valid JSON")>>>>
         ELSE <<>>)
  /\ UNCHANGED <<password, mode, start, runs, encBy>>
  /\ UNCHANGED scraperVars

\* decrypt.js with the test of the config before the test of the artifact
DecryptCheckConfigFirst ==
  /\ pc = "check" /\ mode = "decrypt"
  /\ IF Falsy(password) THEN Exit(1) /\ UNCHANGED salt
     ELSE IF ~fs.config.exists THEN Exit(1) /\ UNCHANGED salt
     ELSE IF ~fs.enc.exists THEN Exit(0) /\ UNCHANGED salt
     ELSE IF ~fs.config.json THEN Exit(1) /\ UNCHANGED salt
     ELSE salt' = fs.config.salt /\ pc' = "decrypt" /\ UNCHANGED exitCode
  /\ Say(IF Falsy(password) THEN <<Line("Error: STATICRYPT_PASSWORD environment variable is required")>>
         ELSE IF ~fs.config.exists
           THEN <<Line("Error: .staticrypt.json not found. Cannot decrypt without salt.")>>
         ELSE IF ~fs.enc.exists
           THEN <<Line("No encrypted data file found (data/stats.json.enc)"),
                  Line("This is normal for initial setup - scraper will create stats.json")>>
         ELSE IF ~fs.config.json THEN <<<<Lit("Decryption failed:"), Lit("SyntaxError: .staticrypt.json is not valid JSON")>>>>
         ELSE <<>>)
  /\ UNCHANGED <<fs, password, mode, start, runs, encBy>>
  /\ UNCHANGED scraperVars

\* main, 249-268
DecryptCheck ==
  /\ pc = "check" /\ mode = "decrypt"
  /\ IF Falsy(password) THEN Exit(1) /\ UNCHANGED salt
     ELSE IF ~fs.enc.exists THEN Exit(0) /\ UNCHANGED salt
     ELSE IF ~fs.config.exists THEN Exit(1) /\ UNCHANGED salt
     ELSE IF ~fs.config.json THEN Exit(1) /\ UNCHANGED salt
     ELSE salt' = fs.config.salt /\ pc' = "decrypt" /\ UNCHANGED exitCode
  /\ Say(IF Falsy(password) THEN <<Line("Error: STATICRYPT_PASSWORD environment variable is required")>>
         ELSE IF ~fs.enc.exists
           THEN <<Line("No encrypted data file found (data/stats.json.enc)"),
                  Line("This is normal for initial setup - scraper will create stats.json")>>
         ELSE IF ~fs.config.exists
           THEN <<Line("Error: .staticrypt.json not found. Cannot decrypt without salt.")>>
         ELSE IF ~fs.config.json THEN <<<<Lit("Decryption failed:"), Lit("SyntaxError: .staticrypt.json is not valid JSON")>>>>
         ELSE <<>>)
  /\ UNCHANGED <<fs, password, mode, start, runs, encBy>>
  /\ UNCHANGED scraperVars

\* the writeFileSync of 282 moved before the JSON.parse of 280
DecryptDataWriteFirst ==
  /\ pc = "decrypt" /\ mode = "decrypt"
  /\ LET decryptedData == decrypt(fs.enc.content, hashPasswordDecrypt(password.val, salt))
     IN  /\ IF decryptedData.ok
                THEN /\ fs' = [fs EXCEPT !.data = File(decryptedData.v)]
                     /\ Exit(IF JsonParses(decryptedData.v) THEN 0 ELSE 1)
                ELSE Exit(1) /\ UNCHANGED fs
         /\ Say(<<Line("Hashing password with PBKDF2 (600k iterations)..."),
                  Line("Decrypting data/stats.json.enc...")>>
                \o (IF decryptedData.ok /\ JsonParses(decryptedData.v)
                      THEN <<Line("Decrypted to data/stats.json")>>
                      ELSE <<<<Lit("Decryption failed:")>>
                               \o DecryptErrorMessage(fs.enc.content, decryptedData),
                             Line("Check that STATICRYPT_PASSWORD is correct")>>))
  /\ UNCHANGED <<password, mode, salt, start, runs, encBy>>
  /\ UNCHANGED scraperVars

\* decrypt.js without the JSON.parse of 280
DecryptDataNoParse ==
  /\ pc = "decrypt" /\ mode = "decrypt"
  /\ LET decryptedData == decrypt(fs.enc.content, hashPasswordDecrypt(password.val, salt))
     IN  /\ IF decryptedData.ok
                THEN fs' = [fs EXCEPT !.data = File(decryptedData.v)] /\ Exit(0)
                ELSE Exit(1) /\ UNCHANGED fs
         /\ Say(<<Line("Hashing password with PBKDF2 (600k iterations)..."),
                  Line("Decrypting data/stats.json.enc...")>>
                \o (IF decryptedData.ok
                      THEN <<Line("Decrypted to data/stats.json")>>
                      ELSE <<<<Lit("Decryption failed:")>>
                               \o DecryptErrorMessage(fs.enc.content, decryptedData),
                             Line("Check that STATICRYPT_PASSWORD is correct")>>))
  /\ UNCHANGED <<password, mode, salt, start, runs, encBy>>
  /\ UNCHANGED scraperVars

\* main, 270-288: the data file is written after decrypt and JSON.parse
\* have both returned
DecryptData ==
  /\ pc = "decrypt" /\ mode = "decrypt"
  /\ LET decryptedData == decrypt(fs.enc.content, hashPasswordDecrypt(password.val, salt))
     IN  /\ IF decryptedData.ok /\ JsonParses(decryptedData.v)
                THEN fs' = [fs EXCEPT !.data = File(decryptedData.v)] /\ Exit(0)
                ELSE Exit(1) /\ UNCHANGED fs
         /\ Say(<<Line("Hashing password with PBKDF2 (600k iterations)..."),
                  Line("Decrypting data/stats.json.enc...")>>
                \o (IF decryptedData.ok /\ JsonParses(decryptedData.v)
                      THEN <<Line("Decrypted to data/stats.json")>>
                      ELSE <<<<Lit("Decryption failed:")>>
                               \o DecryptErrorMessage(fs.enc.content, decryptedData),
                             Line("Check that STATICRYPT_PASSWORD is correct")>>))
  /\ UNCHANGED <<password, mode, salt, start, runs, encBy>>
  /\ UNCHANGED scraperVars

Next ==
  \/ StartRun
  \/ EncryptCheck
  \/ loadOrCreateConfig
  \/ EncryptData
  \/ BackupIndex
  \/ WritePatchedIndex
  \/ RunStatiCrypt
  \/ PostProcessOutput
  \/ Cleanup
  \/ DataCheck
  \/ DataEncrypt
  \/ DataCleanup
  \/ DecryptCheck
  \/ DecryptData

Spec == Init /\ [][Next]_vars

\* ------------------------------------------- the two data scripts alone
\* the operator starts encrypt-data.js or decrypt.js
StartDataRun ==
  /\ pc \in {"idle", "done"}
  /\ runs < MaxRuns
  /\ \E m \in {"data", "decrypt"}, pw \in EnvValues :
       /\ mode' = m
       /\ password' = pw
  /\ pc' = "check"
  /\ salt' = <<>>
  /\ exitCode' = 0 - 1
  /\ start' = fs
  /\ runs' = runs + 1
  /\ log' = <<>>
  /\ UNCHANGED <<fs, encBy>>
  /\ UNCHANGED scraperVars

DataNext ==
  \/ StartDataRun
  \/ DataCheck
  \/ DataEncrypt
  \/ DataCleanup
  \/ DecryptCheck
  \/ DecryptData

\* runs of encrypt-data.js and decrypt.js, in any order, from the same files
DataSpec == Init /\ [][DataNext]_vars

\* --------------------------------------------------------- scraper/index.js
\* The scraper reads and writes data/stats.json as a JSON value; statsFile is
\* that value. A snapshot's data is one scraped total; its summary is that
\* total and its year is the year of its date.
KEEP == 365
TicksPerDay == 2
MaxClock == 3
MaxScraperRuns == 2
ScrapedData == {1001, 1002}
StoreLengths == {0, 1, 2, KEEP - 1, KEEP}
LastDays == {0 - 1, 0}
Instants == 0..MaxClock

\* utils.js 298-300: the UTC day of an instant
formatDate(date) == date \div TicksPerDay

\* utils.js 308-339 on one total
calculateDiff(current, previous) ==
  IF current - previous # 0 THEN <<current - previous>> ELSE <<>>

\* utils.js 24-38
loadStats(file) ==
  IF file = Null
    THEN [lastUpdated |-> <<>>, years |-> 0, dailySnapshots |-> <<>>]
    ELSE file

\* utils.js 346-357: now is the instant its call of formatDate reads
getPreviousSnapshot(snapshots, now) ==
  LET today == formatDate(now)
      others == {i \in 1..Len(snapshots) : snapshots[i].date # today}
  IN  IF others = {} THEN Null
      ELSE snapshots[CHOOSE i \in others : \A j \in others : j <= i]

\* Array.prototype.findIndex with the callback of index.js 540, which reads
\* the clock at every element: today[i] is the day read at element i.
\* 0 stands for -1, and the indices count from 1
findIndex(snapshots, today) ==
  LET hits == {i \in 1..Len(snapshots) : snapshots[i].date = today[i]}
  IN  IF hits = {} THEN 0 ELSE CHOOSE i \in hits : \A j \in hits : i <= j

\* Array.prototype.slice with a negative start
SliceLast(snapshots, n) ==
  IF Len(snapshots) <= n THEN snapshots
  ELSE SubSeq(snapshots, Len(snapshots) - n + 1, Len(snapshots))

\* a store that n daily runs on the n days up to last have written
StoredSnapshot(day, i) ==
  [date |-> day, data |-> i,
   diff |-> IF i = 1 THEN <<>> ELSE <<1>>,
   previousDate |-> IF i = 1 THEN <<>> ELSE <<day - 1>>]
Store(n, last) ==
  [lastUpdated |-> <<last * TicksPerDay>>, years |-> n,
   dailySnapshots |-> [i \in 1..n |-> StoredSnapshot(last - n + i, i)] \o <<>>]
Stores == {Store(n, last) : n \in StoreLengths, last \in LastDays}

\* runScraper, 378-401, with the command line of 567-579
ScraperStart ==
  /\ spc \in {"idle", "done"}
  /\ sruns < MaxScraperRuns
  /\ \E credentials \in BOOLEAN, d \in BOOLEAN, now \in Instants :
       /\ clock <= now /\ clock' = now
       /\ daily' = d
       /\ IF ~credentials
            THEN spc' = "done" /\ scraperExit' = 1 /\ UNCHANGED stats
            ELSE /\ stats' = loadStats(statsFile)
                 /\ spc' = "scrape" /\ scraperExit' = 0 - 1
  /\ snapshot' = Null
  /\ sruns' = sruns + 1
  /\ UNCHANGED statsFile
  /\ UNCHANGED scriptVars

\* runScraper, 417-502 and 557-562: the login, the tables of the year, and
\* saveStats (utils.js 42-46); an error of the page ends the run in the catch
ScrapeYears ==
  /\ spc = "scrape"
  /\ \E outcome \in {"loginFailed", "error", "scraped"},
        tableData \in ScrapedData, now \in Instants :
       /\ clock <= now /\ clock' = now
       /\ IF outcome = "loginFailed"
            THEN spc' = "done" /\ scraperExit' = 1 /\ UNCHANGED <<stats, statsFile>>
          ELSE IF outcome = "error"
            THEN spc' = "done" /\ scraperExit' = 0 /\ UNCHANGED <<stats, statsFile>>
          ELSE /\ stats' = [stats EXCEPT !.years = tableData, !.lastUpdated = <<now>>]
               /\ statsFile' = stats'
               /\ IF daily THEN spc' = "snapshot" /\ UNCHANGED scraperExit
                           ELSE spc' = "done" /\ scraperExit' = 0
  /\ UNCHANGED <<daily, snapshot, sruns>>
  /\ UNCHANGED scriptVars

\* runScraper, 505-537: getPreviousSnapshot reads the clock, and so does the
\* formatDate of 531
BuildSnapshot ==
  /\ spc = "snapshot"
  /\ \E t1 \in Instants, t2 \in Instants :
       /\ clock <= t1 /\ t1 <= t2 /\ clock' = t2
       /\ LET todayData == stats.years
              previousSnapshot == getPreviousSnapshot(stats.dailySnapshots, t1)
          IN  snapshot' =
                [date |-> formatDate(t2),
                 data |-> todayData,
                 diff |-> IF previousSnapshot = Null THEN <<>>
                          ELSE calculateDiff(todayData, previousSnapshot.data),
                 previousDate |-> IF previousSnapshot = Null THEN <<>>
                                  ELSE <<previousSnapshot.date>>]
  /\ spc' = "record"
  /\ UNCHANGED <<statsFile, stats, daily, scraperExit, sruns>>
  /\ UNCHANGED scriptVars

\* runScraper, 539-547: the scan reads the clock at every element; the
\* elements up to k are compared with the day of t1, the others with the
\* day of t2. The place of the change of day decides the result only at an
\* element dated one of the two days, so k ranges over those
RecordSnapshot ==
  /\ spc = "record"
  /\ \E t1 \in Instants, t2 \in Instants :
       /\ clock <= t1 /\ t1 <= t2 /\ clock' = t2
       /\ \E k \in IF formatDate(t1) = formatDate(t2) THEN {0}
                   ELSE {0} \cup {i \in 1..Len(stats.dailySnapshots) :
                                   stats.dailySnapshots[i].date
                                     \in {formatDate(t1), formatDate(t2)}} :
            LET today == [i \in 1..Len(stats.dailySnapshots) |->
                            IF i <= k THEN formatDate(t1) ELSE formatDate(t2)]
                todayIndex == findIndex(stats.dailySnapshots, today)
            IN  stats' = IF todayIndex >= 1
                           THEN [stats EXCEPT !.dailySnapshots[todayIndex] = snapshot]
                           ELSE [stats EXCEPT !.dailySnapshots = Append(@, snapshot)]
  /\ spc' = "trim"
  /\ UNCHANGED <<statsFile, daily, snapshot, scraperExit, sruns>>
  /\ UNCHANGED scriptVars

\* the trim keeping the first 365 entries
TrimAndSaveKeepsOldest ==
  /\ spc = "trim"
  /\ \E now \in Instants :
       /\ clock <= now /\ clock' = now
       /\ stats' = [stats EXCEPT
                      !.dailySnapshots =
                        IF Len(@) > KEEP THEN SubSeq(@, 1, KEEP) ELSE @,
                      !.lastUpdated = <<now>>]
  /\ statsFile' = stats'
  /\ spc' = "done" /\ scraperExit' = 0
  /\ UNCHANGED <<daily, snapshot, sruns>>
  /\ UNCHANGED scriptVars

\* runScraper, 549-562, with saveStats
TrimAndSave ==
  /\ spc = "trim"
  /\ \E now \in Instants :
       /\ clock <= now /\ clock' = now
       /\ stats' = [stats EXCEPT
                      !.dailySnapshots =
                        IF Len(@) > KEEP THEN SliceLast(@, KEEP) ELSE @,
                      !.lastUpdated = <<now>>]
  /\ statsFile' = stats'
  /\ spc' = "done" /\ scraperExit' = 0
  /\ UNCHANGED <<daily, snapshot, sruns>>
  /\ UNCHANGED scriptVars

\* the scraper alone, from a store that earlier daily runs have written
ScraperInit ==
  /\ fs = [config |-> NoConfig, data |-> NoFile, enc |-> NoFile,
           index |-> File(OriginalIndex), bak |-> NoFile, gen |-> NoFile]
  /\ password = Undefined
  /\ mode = "publish"
  /\ pc = "idle"
  /\ salt = <<>>
  /\ exitCode = 0 - 1
  /\ start = fs
  /\ runs = 0
  /\ encBy = Made(<<>>, <<>>, <<>>)
  /\ log = <<>>
  /\ clock = 0
  /\ statsFile \in {Null} \cup Stores
  /\ stats = Null
  /\ daily = FALSE
  /\ snapshot = Null
  /\ spc = "idle"
  /\ scraperExit = 0 - 1
  /\ sruns = 0

ScraperNext ==
  \/ ScraperStart
  \/ ScrapeYears
  \/ BuildSnapshot
  \/ RecordSnapshot
  \/ TrimAndSave

ScraperSpec == ScraperInit /\ [][ScraperNext]_vars
\* ------------------------------------------------------------------ claims
Done == pc = "done"
EncryptRun == mode \in {"publish", "data"}
DecryptRun == mode = "decrypt"
\* the encrypt script has written the artifact and not yet deleted the data
AfterEncrypt ==
  \/ mode = "publish" /\ pc = "backup"
  \/ mode = "data" /\ pc = "cleanup"

RoundTrip(P, W, S, iv) ==
  LET k == hashPassword(W, S) IN decrypt(encrypt(P, k, iv).v, k) = Ok(P)

\* no lone surrogate, and no U+FEFF in front
WellFormed(P) ==
  \A i \in 1..Len(P) :
    /\ IsHighSurrogate(P[i]) => i < Len(P) /\ IsLowSurrogate(P[i + 1])
    /\ IsLowSurrogate(P[i]) => i > 1 /\ IsHighSurrogate(P[i - 1])
NoBomInFront(P) == P = <<>> \/ P[1] # 65279

\* C1 as stated: decrypt(encrypt(P, derive(W, S)), derive(W, S)) returns P for
\* every password W, salt S, plaintext P and IV
C1_RoundTripEveryPlaintext ==
  AfterEncrypt =>
    /\ decrypt(fs.enc.content, hashPassword(password.val, salt)) = Ok(fs.data.content)
    /\ \A iv \in RandomBlocks : RoundTrip(fs.data.content, <<>>, salt, iv)

\* C1 amended: the round trip returns P for every password, salt and IV when
\* P is well-formed Unicode text that does not begin with U+FEFF
C1_RoundTrip ==
  AfterEncrypt /\ WellFormed(fs.data.content) /\ NoBomInFront(fs.data.content) =>
    /\ decrypt(fs.enc.content, hashPassword(password.val, salt)) = Ok(fs.data.content)
    /\ \A iv \in RandomBlocks : RoundTrip(fs.data.content, <<>>, salt, iv)

C1_Witness ==
  AfterEncrypt /\ fs.data.content = <<49, 65279>> /\ password.val = LongPw

\* C2: once the Config file exists no step of any run changes it, and the
\* salt a run derives its key from is the salt of that file
C2_SaltNeverChanges ==
  [][/\ fs.config.exists => fs'.config = fs.config
     /\ pc' \in {"encrypt", "decrypt"} => salt' = fs'.config.salt]_vars

\* the second run is a full publish that succeeded on the Config the first
\* run created
C2_Witness ==
  /\ runs = 2 /\ Done /\ mode = "publish" /\ exitCode = 0
  /\ start.config.exists /\ start.config.salt # Salt0
  /\ fs.config = start.config /\ encBy.salt = fs.config.salt

\* C3: in an encrypt run the plaintext is removed only when the ciphertext of
\* that plaintext is on disk
C3_DeleteAfterWrite ==
  EncryptRun /\ start.data.exists /\ ~fs.data.exists =>
    /\ fs.enc.exists
    /\ LET k == hashPassword(password.val, salt)
       IN  \E iv \in RandomBlocks :
             fs.enc.content = encrypt(start.data.content, k, iv).v

C3_Witness ==
  /\ mode = "data" /\ start.data.exists /\ ~fs.data.exists
  /\ start.enc.exists /\ fs.enc # start.enc

\* C4: an encrypt run that exits 0 leaves no plaintext and leaves the
\* encryption of the plaintext it started with, under the key of the
\* supplied password and the Config salt
C4_ExitZeroMeansEncrypted ==
  Done /\ EncryptRun /\ exitCode = 0 =>
    /\ ~fs.data.exists
    /\ fs.enc.exists
    /\ fs.config.exists /\ fs.config.json
    /\ LET k == hashPassword(password.val, fs.config.salt)
       IN  \E iv \in RandomBlocks :
             fs.enc.content = encrypt(start.data.content, k, iv).v

C4_Witness ==
  /\ Done /\ mode = "publish" /\ exitCode = 0
  /\ ~start.config.exists /\ start.data.content = <<49, 49>>

\* C5: decrypt with a password and an artifact but no Config exits non-zero,
\* creates no Config and leaves the plaintext as it was
C5_NoConfigNoFabrication ==
  Done /\ DecryptRun /\ ~Falsy(password) /\ start.enc.exists /\ ~start.config.exists =>
    /\ exitCode # 0
    /\ fs.config = NoConfig
    /\ fs.data = start.data

C5_Witness ==
  /\ Done /\ DecryptRun /\ ~Falsy(password)
  /\ start.enc.exists /\ ~start.config.exists /\ start.data.exists

\* C6: decrypt with a password and no artifact exits 0 and changes no file,
\* with or without a Config
C6_NoArtifactNoOp ==
  Done /\ DecryptRun /\ ~Falsy(password) /\ ~start.enc.exists =>
    exitCode = 0 /\ fs = start

C6_Witness ==
  Done /\ DecryptRun /\ ~Falsy(password) /\ ~start.enc.exists /\ ~start.config.exists

\* what decrypt returns in a decrypt run that got as far as decrypting
Recovered == decrypt(start.enc.content, hashPasswordDecrypt(password.val, start.config.salt))
Decrypted ==
  /\ Done /\ DecryptRun /\ ~Falsy(password)
  /\ start.enc.exists /\ start.config.exists /\ start.config.json

\* C7: when decrypt raises or the text does not parse, the run exits
\* non-zero and the plaintext file is as before; it is written only after
\* the parse has passed
C7_FailureWritesNothing ==
  /\ Decrypted =>
       LET r == Recovered
       IN  ~r.ok \/ ~JsonParses(r.v) => exitCode # 0 /\ fs.data = start.data
  /\ DecryptRun /\ fs.data # start.data =>
       LET r == Recovered IN r.ok /\ JsonParses(r.v)

\* the text was recovered and failed the parse
C7_Witness ==
  /\ Decrypted /\ start.data.exists
  /\ Recovered.ok /\ ~JsonParses(Recovered.v)

\* the run decrypts with a password other than the one the artifact was made
\* with, under the same salt
WrongPassword ==
  Decrypted /\ encBy.pw # password.val /\ encBy.salt = start.config.salt

\* C8 as stated: a decrypt run with the wrong password exits non-zero and
\* writes no plaintext
C8_WrongPasswordAlwaysDetected ==
  WrongPassword => exitCode # 0 /\ fs.data = start.data

\* C8 amended: a decrypt run with the wrong password exits non-zero and
\* writes nothing when decrypt raises or the text fails the parse; when the
\* text under the wrong password's key parses, the run writes it and exits 0
C8_WrongPasswordDetectedByParse ==
  WrongPassword =>
    LET r == Recovered
    IN  IF r.ok /\ JsonParses(r.v)
          THEN exitCode = 0 /\ fs.data = File(r.v)
          ELSE exitCode # 0 /\ fs.data = start.data

C8_Witness ==
  /\ WrongPassword /\ encBy.pw = LongPw /\ password.val = Pw1
  /\ ~Recovered.ok /\ exitCode = 1

\* C9: with the password unset or empty every script exits non-zero and no
\* state of the run has a file changed
C9_NoPasswordNoEffect ==
  pc # "idle" /\ Falsy(password) =>
    /\ fs = start
    /\ pc \in {"check", "done"}
    /\ Done => exitCode # 0

C9_Witness ==
  /\ Done /\ mode = "publish" /\ password = Defined(<<>>)
  /\ fs.data.exists /\ fs.enc.exists /\ ~fs.config.exists

\* C10: an encrypt run with a password and no plaintext exits non-zero and
\* changes no file
C10_NoPlaintextNoEffect ==
  EncryptRun /\ pc # "idle" /\ ~Falsy(password) /\ ~start.data.exists =>
    /\ fs = start
    /\ Done => exitCode # 0

C10_Witness ==
  /\ Done /\ mode = "publish" /\ ~Falsy(password)
  /\ ~start.data.exists /\ ~start.config.exists /\ start.enc.exists

\* an encrypt run that started with a password, a plaintext and no Config
NoConfigAtStart ==
  /\ EncryptRun /\ pc # "idle" /\ ~Falsy(password)
  /\ start.data.exists /\ ~start.config.exists
\* the Config holds a salt generateRandomSalt made, 16 bytes in hex, and the
\* run uses it
FreshSalt ==
  /\ fs.config.exists /\ fs.config.json /\ fs.config.salt \in Salts
  /\ salt = fs.config.salt
  /\ HexParse(salt).ok /\ Len(HexParse(salt).v) = 16
\* the artifact is the encryption of the plaintext the run started with
EncryptedUnder(s) ==
  /\ fs.enc.exists
  /\ LET k == hashPassword(password.val, s)
     IN  \E iv \in RandomBlocks :
           fs.enc.content = encrypt(start.data.content, k, iv).v

\* C11 as stated: in both encrypt modes a run with a password, a plaintext
\* and no Config creates a Config with a fresh salt and goes on to encrypt
C11_LoadOrCreateInEveryMode ==
  NoConfigAtStart /\ pc \notin {"check", "config"} =>
    FreshSalt /\ (pc # "encrypt" => EncryptedUnder(salt))

\* C11 amended: the full-publish run creates a Config with a fresh 16-byte
\* salt and goes on to encrypt; the data-only run exits non-zero and changes
\* no file
C11_LoadOrCreateInFullPublish ==
  /\ NoConfigAtStart /\ mode = "publish" /\ pc \notin {"check", "config"} =>
       FreshSalt /\ (pc # "encrypt" => EncryptedUnder(salt))
  /\ NoConfigAtStart /\ mode = "data" /\ pc # "check" =>
       Done /\ exitCode # 0 /\ fs = start

C11_Witness ==
  /\ NoConfigAtStart /\ mode = "publish" /\ pc = "backup"
  /\ start.enc.exists /\ fs.config.salt # Salt0

\* the full-publish run is between the write of the artifact and its end
AfterWrite == mode = "publish" /\ pc \in {"backup", "patch", "generate", "post", "cleanup"}

\* C12 as stated: the plaintext is already deleted when the host document is
\* patched and the generator is invoked
C12_DeleteBeforePatch ==
  mode = "publish" /\ pc \in {"patch", "generate", "post", "cleanup"} => ~fs.data.exists

\* C12 amended: the full-publish run writes the ciphertext, patches the host
\* document, invokes the generator, post-processes its output and deletes
\* the plaintext last: the plaintext is still there, unchanged, while the
\* document is patched and the generator runs, and is gone only in a run
\* that ended with exit code 0
C12_DeleteIsLastStep ==
  /\ AfterWrite => fs.data.exists /\ fs.data = start.data /\ EncryptedUnder(salt)
  /\ mode = "publish" /\ pc = "generate" =>
       fs.index.content = PatchIndex(fs.bak.content, salt)
  /\ mode = "publish" /\ pc = "cleanup" =>
       /\ ~fs.gen.exists
       /\ fs.index.content \in {PostProcess(o) : o \in GeneratorOutputs}
                                 \cup {PatchIndex(fs.bak.content, salt)}
  /\ mode = "publish" /\ start.data.exists /\ ~fs.data.exists => Done /\ exitCode = 0

\* the generator's output has been post-processed and the plaintext is there
C12_Witness ==
  /\ mode = "publish" /\ pc = "cleanup" /\ fs.data.exists
  /\ fs.index.content = PostProcess(GeneratorOutput)

\* the run logged the failure of the generator
GeneratorFailed ==
  /\ mode = "publish" /\ Done
  /\ \E i \in 1..Len(log) : log[i][1] = Lit("StatiCrypt encryption failed:")

\* C13: when the generator fails the full-publish run ends at once with a
\* non-zero exit code and without cleanup: the plaintext is still there, as
\* it was, next to the ciphertext the run wrote
C13_GeneratorFailureKeepsPlaintext ==
  GeneratorFailed =>
    /\ exitCode # 0
    /\ log[Len(log)][1] = Lit("StatiCrypt encryption failed:")
    /\ fs.data.exists /\ fs.data = start.data
    /\ EncryptedUnder(salt)
    /\ fs.index.content = PatchIndex(fs.bak.content, salt)

C13_Witness ==
  GeneratorFailed /\ start.enc.exists /\ fs.enc # start.enc /\ runs = 2

\* needle occurs in hay as a run of consecutive code units
Contains(hay, needle) ==
  \/ needle = <<>>
  \/ \E i \in 1..(Len(hay) - Len(needle) + 1) :
       hay[i] = needle[1] /\ SubSeq(hay, i, i + Len(needle) - 1) = needle

\* the values computed at run time that the run has written to the console
LoggedValues ==
  UNION {{log[i][j].val : j \in 1..Len(log[i])} : i \in 1..Len(log)} \ {<<>>}

\* C14: no line written to the console, on any path of any script, holds
\* the password or the key derived from it
C14_PasswordNeverLogged ==
  ~Falsy(password) =>
    LET k == hashPassword(password.val, salt)
    IN  \A v \in LoggedValues : ~Contains(v, password.val) /\ ~Contains(v, k)

\* the texts the files hold: the salt of the Config, the plaintext, the
\* artifact, and the values embedded in the documents
DocumentValues(f) == {f.content[i].salt : i \in 1..Len(f.content)}
FileTexts ==
  {fs.config.salt, fs.data.content, fs.enc.content}
    \cup DocumentValues(fs.index) \cup DocumentValues(fs.bak) \cup DocumentValues(fs.gen)

\* C15: no file holds the password or the derived key, in any state of any
\* run
C15_SecretsNeverOnDisk ==
  pc # "idle" /\ ~Falsy(password) =>
    LET k == hashPassword(password.val, salt)
    IN  \A t \in FileTexts :
          /\ ~Contains(t, password.val)
          /\ salt # <<>> => ~Contains(t, k)

\* the document has been patched with the script that embeds the salt
C15_Witness ==
  /\ mode = "publish" /\ pc = "generate" /\ password.val = TwinPw
  /\ CryptoScript(salt) \in {fs.index.content[i] : i \in 1..Len(fs.index.content)}

IsLowerHex(c) == c \in 48..57 \/ c \in 97..102

\* C16: the string encrypt returned is the 32 lowercase hex characters of
\* the IV followed by the hex of the ciphertext and nothing else, and
\* decrypt, splitting at character 32, works on that IV and that ciphertext
C16_IvThenCiphertext ==
  AfterEncrypt =>
    LET enc == fs.enc.content
        k == hashPassword(password.val, salt)
    IN  \E iv \in RandomBlocks :
          LET ct == SubtleEncrypt(HexParse(k).v, iv, Utf8Parse(fs.data.content)).v
              out == SubtleDecrypt(HexParse(k).v, iv, ct)
          IN  /\ enc = HexStringify(iv) \o HexStringify(ct)
              /\ Len(HexStringify(iv)) = 32
              /\ \A i \in 1..Len(enc) : IsLowerHex(enc[i])
              /\ Substring(enc, 0, 32) = HexStringify(iv)
              /\ SubSeqFrom(enc, 33) = HexStringify(ct)
              /\ decrypt(enc, k) = IF out.ok THEN Ok(Utf8Stringify(out.v)) ELSE Err

\* a plaintext that is not ASCII, under the IV that is not IV0
C16_Witness ==
  /\ AfterEncrypt /\ fs.data.content = <<65279, 65279>> /\ password.val = Pw1
  /\ Substring(fs.enc.content, 0, 32) # HexStringify(IV0)

\* the artifact is not valid hex, has odd length, or is shorter than one IV
Damaged(artifact) ==
  \/ \E i \in 1..Len(artifact) : ~IsHexDigit(artifact[i])
  \/ Len(artifact) % 2 = 1
  \/ Len(artifact) < 32

\* C17: on an artifact that is not valid hex, has odd length or is shorter
\* than 32 characters, decrypt raises an error and the decrypt run exits
\* non-zero without writing the plaintext
C17_DamagedArtifactRejected ==
  Decrypted /\ Damaged(start.enc.content) =>
    ~Recovered.ok /\ exitCode # 0 /\ fs.data = start.data

\* C18: HexEncoder.parse returns bytes only when the input has even length
\* and every character of it is a hex digit
C18_ParseRejectsNonHex ==
  Decrypted =>
    LET hexString == Substring(start.enc.content, 0, IV_BITS \div HEX_BITS)
    IN  HexParse(hexString).ok =>
          /\ Len(hexString) % 2 = 0
          /\ \A i \in 1..Len(hexString) : IsHexDigit(hexString[i])

\* the characters 0123456789abcdef
LowerHexDigits == <<48, 49, 50, 51, 52, 53, 54, 55, 56, 57, 97, 98, 99, 100, 101, 102>>

\* the byte sequences the run that encrypts hands to HexEncoder.stringify:
\* the IVs, the ciphertexts and the derived key
StringifiedBytes ==
  LET k == HexParse(hashPassword(password.val, salt)).v
  IN  RandomBlocks \cup {k}
        \cup {SubtleEncrypt(k, iv, Utf8Parse(fs.data.content)).v : iv \in RandomBlocks}

\* the empty sequence and every sequence of one byte
ShortBytes == {<<>>} \cup {<<n>> : n \in 0..255}

\* stringify(b) has two lowercase digits for each byte of b, high digit
\* first, in the order of b, and parse gives b back
StringifyThenParse(b) ==
  LET h == HexStringify(b)
  IN  /\ Len(h) = 2 * Len(b)
      /\ \A i \in 1..Len(b) :
            /\ h[2 * i - 1] = LowerHexDigits[(b[i] \div 16) + 1]
            /\ h[2 * i] = LowerHexDigits[(b[i] % 16) + 1]
      /\ HexParse(h) = Ok(b)

\* C19: HexEncoder.stringify(b) has two lowercase hex digits for each byte
\* of b, high digit first, in the order of b, and HexEncoder.parse gives b
\* back: for the empty sequence and every single byte (a fact of the two
\* functions alone, stated of the states no run has started in), and for
\* every byte sequence a run that encrypts has stringified
C19_StringifyThenParse ==
  /\ pc = "idle" => \A b \in ShortBytes : StringifyThenParse(b)
  /\ AfterEncrypt => \A b \in StringifiedBytes : StringifyThenParse(b)

\* the artifact begins with an IV that has a byte below 16
C19_Witness ==
  /\ AfterEncrypt /\ password.val = LongPw
  /\ \E iv \in RandomBlocks :
       /\ \E i \in 1..Len(iv) : iv[i] < 16
       /\ Substring(fs.enc.content, 0, 32) = HexStringify(iv)

\* one pass: PBKDF2 over the UTF-8 bytes of the input string and of the salt
\* string, 256 bits, written in hex
Pass(input, s, iterations, hash) ==
  HexStringify(DeriveBits(Utf8Parse(input), Utf8Parse(s), iterations, hash, 256))

\* C20: the key a run derives is pass 3 of the chain (1,000 iterations of
\* SHA-1 on the password, 14,000 of SHA-256 on the hex string of pass 1,
\* 585,000 of SHA-256 on the hex string of pass 2), every pass with the salt
\* string as UTF-8 bytes and 64 hex characters long; the artifact is made
\* under that key
C20_ThreePassChain ==
  AfterEncrypt =>
    LET pass1 == Pass(password.val, salt, 1000, "SHA-1")
        pass2 == Pass(pass1, salt, 14000, "SHA-256")
        pass3 == Pass(pass2, salt, 585000, "SHA-256")
    IN  /\ Len(pass1) = 64 /\ Len(pass2) = 64 /\ Len(pass3) = 64
        /\ hashPassword(password.val, salt) = pass3
        /\ \E iv \in RandomBlocks :
             fs.enc.content = encrypt(fs.data.content, pass3, iv).v

\* a data-only run has derived its key from a password longer than the
\* HMAC block and the salt of the Config
C20_Witness ==
  AfterEncrypt /\ mode = "data" /\ password.val = LongPw /\ salt = Salt0

\* C21: for the password and the salt of a run, the hashPassword of
\* encrypt.js, of encrypt-data.js and of decrypt.js return one key (each is
\* a function of its two arguments: importKey and deriveBits read nothing
\* else), so the key decrypt.js derives is the key the artifact was made
\* under when the password and the Config are the same
C21_SameKeyInEveryScript ==
  Decrypted =>
    LET k == hashPasswordDecrypt(password.val, start.config.salt)
    IN  /\ k = hashPassword(password.val, start.config.salt)
        /\ k = hashPasswordData(password.val, start.config.salt)

\* a decrypt run succeeded on the artifact an earlier run made under the
\* password longer than the HMAC block
C21_Witness ==
  /\ Decrypted /\ exitCode = 0 /\ runs = 2
  /\ password.val = LongPw /\ encBy.pw = LongPw /\ encBy.salt = start.config.salt

\* the 32 characters in front of an artifact
IvPrefix(artifact) == Substring(artifact, 0, IV_BITS \div HEX_BITS)

\* the run has called encrypt on the plaintext, and under the key, that the
\* artifact it found had been made of: a second call with the same P and K
SecondCall ==
  /\ AfterEncrypt /\ start.enc.exists
  /\ LET k == hashPassword(password.val, salt)
     IN  \E iv \in RandomBlocks :
           start.enc.content = encrypt(fs.data.content, k, iv).v

\* C22 as stated: the two calls return different artifacts, with different
\* IV prefixes, and both decrypt back to P
C22_FreshIvDistinctArtifacts ==
  SecondCall =>
    LET k == hashPassword(password.val, salt)
    IN  /\ fs.enc.content # start.enc.content
        /\ IvPrefix(fs.enc.content) # IvPrefix(start.enc.content)
        /\ decrypt(fs.enc.content, k) = Ok(fs.data.content)
        /\ decrypt(start.enc.content, k) = Ok(fs.data.content)

\* C22 amended: each call puts in front the 32 hex characters of the IV it
\* drew; the two artifacts differ exactly when the two IVs differ, which the
\* random source decides, and each decrypts under K by the IV in front of
\* it: back to P when P is well-formed text that does not begin with U+FEFF
C22_ArtifactsDifferByIv ==
  SecondCall =>
    LET k == hashPassword(password.val, salt)
        P == fs.data.content
    IN  /\ \E iv \in RandomBlocks : IvPrefix(fs.enc.content) = HexStringify(iv)
        /\ \E iv \in RandomBlocks : IvPrefix(start.enc.content) = HexStringify(iv)
        /\ fs.enc.content # start.enc.content
             <=> IvPrefix(fs.enc.content) # IvPrefix(start.enc.content)
        /\ decrypt(fs.enc.content, k) = decrypt(start.enc.content, k)
        /\ WellFormed(P) /\ NoBomInFront(P) => decrypt(fs.enc.content, k) = Ok(P)

\* the second call drew another IV than the first
C22_Witness ==
  /\ SecondCall /\ runs = 2 /\ password.val = LongPw
  /\ fs.enc.content # start.enc.content

\* C23: a data-only run, however it ends, leaves index.html, index.html.bak,
\* the generator's directory and the Config as it found them: it writes the
\* artifact and deletes the plaintext and nothing else
C23_DataOnlyFrame ==
  mode = "data" /\ pc # "idle" =>
    /\ fs.index = start.index /\ fs.bak = start.bak /\ fs.gen = start.gen
    /\ fs.config = start.config
    /\ fs.data \in {start.data, NoFile}

\* a data-only run succeeded after a full publish had made the backup
C23_Witness ==
  /\ mode = "data" /\ Done /\ exitCode = 0
  /\ start.bak.exists /\ fs.enc # start.enc /\ ~fs.data.exists

\* the number of places where the document holds the token
Occurrences(doc, token) == Cardinality({i \in 1..Len(doc) : doc[i] = token})

\* the run has post-processed a page of the generator and ended with 0
Published ==
  /\ mode = "publish" /\ Done /\ exitCode = 0
  /\ \E i \in 1..Len(log) : log[i] = Line("Added logo and modified password storage")

C25_SuccessMeansGated ==
  mode = "publish" /\ Done /\ exitCode = 0 =>
    /\ fs.index.content \in {PostProcess(o) : o \in GeneratorOutputs}
    /\ fs.index.content # PatchIndex(fs.bak.content, salt)
    /\ \A i \in 1..Len(log) :
         log[i] # Line("Warning: encrypted/index.html not found after StatiCrypt")

\* a decrypt run with the password and the Config salt of the run that made
\* the artifact, on the artifact as that run wrote it
DecryptAfterEncrypt ==
  /\ Decrypted /\ encBy.pw = password.val /\ encBy.salt = start.config.salt
  /\ LET k == hashPassword(encBy.pw, encBy.salt)
     IN  \E iv \in RandomBlocks : start.enc.content = encrypt(encBy.msg, k, iv).v

\* C26 as stated: the decrypt run ends with 0 and writes the content P the
\* encrypt run read, whatever P is
C26_DecryptRestoresEveryContent ==
  DecryptAfterEncrypt => exitCode = 0 /\ fs.data = File(encBy.msg)

\* C26 amended: the decrypt run ends with 0 and writes P when P is
\* well-formed text that does not begin with U+FEFF and parses as JSON; when
\* such a P does not parse as JSON (the empty file is one) it ends non-zero
\* and writes nothing; in every case it decides on, and writes, the text
\* decrypt returns, which is P without a U+FEFF in front
C26_DecryptRestoresJson ==
  DecryptAfterEncrypt =>
    LET P == encBy.msg
        r == Recovered
    IN  /\ r = Ok(IF NoBomInFront(P) THEN P ELSE Tail(P))
        /\ IF JsonParses(r.v)
             THEN exitCode = 0 /\ fs.data = File(r.v)
             ELSE exitCode # 0 /\ fs.data = start.data
        /\ NoBomInFront(P) /\ JsonParses(P) => exitCode = 0 /\ fs.data = File(P)
        /\ NoBomInFront(P) /\ ~JsonParses(P) => exitCode # 0 /\ fs.data = start.data

\* the first run encrypted "11" and deleted it, the second brought it back
C26_Witness ==
  /\ DecryptAfterEncrypt /\ runs = 2 /\ encBy.pw = LongPw
  /\ ~start.data.exists /\ exitCode = 0 /\ fs.data = File(<<49, 49>>)

\* the number of decrypt scripts injected in the document
InjectedScripts(doc) == Cardinality({i \in 1..Len(doc) : doc[i].k = "cryptoScript"})

\* C27: the backup, once made, is the original document in every state of
\* every later run, whether or not the generator failed in between; the
\* document a full-publish run hands to the generator is the patch of that
\* original under the salt of the run and holds one injected script
C27_BackupIsOriginal ==
  /\ fs.bak.exists => fs.bak.content = OriginalIndex
  /\ mode = "publish" /\ pc = "generate" =>
       /\ fs.index.content = PatchIndex(OriginalIndex, salt)
       /\ InjectedScripts(fs.index.content) = 1
       /\ fs.index.content[1] = CryptoScript(salt)

\* a second full publish, after one that failed at the generator and left
\* the patched document in index.html, hands the generator the patch of the
\* original
C27_Witness ==
  /\ mode = "publish" /\ pc = "generate" /\ runs = 2
  /\ start.bak.exists /\ InjectedScripts(start.index.content) = 1

\* C28: in every outcome of the decrypt workflow (success, no-op, failure)
\* the encrypted artifact and the Config file are as the run found them, and
\* so are index.html, its backup and the generator's output: the plaintext
\* artifact is the only file the run can have created or modified
C28_DecryptFrame ==
  mode = "decrypt" /\ pc # "idle" =>
    /\ fs.enc = start.enc
    /\ fs.config = start.config
    /\ fs.index = start.index /\ fs.bak = start.bak /\ fs.gen = start.gen
    /\ fs.data # start.data => Done /\ exitCode = 0 /\ fs.data.exists

\* a decrypt run that has replaced a plaintext artifact with the decrypted one
C28_Witness ==
  /\ mode = "decrypt" /\ Done /\ exitCode = 0
  /\ start.data.exists /\ fs.data # start.data
  /\ fs.enc.exists /\ fs.config.exists

\* the dates of the snapshots of a store
Dates(snapshots) == {snapshots[i].date : i \in 1..Len(snapshots)}
OnePerDate(snapshots) == Cardinality(Dates(snapshots)) = Len(snapshots)
ScraperIdle == spc \in {"idle", "done"}

\* C29: after any sequence of daily runs from a store whose dates are
\* distinct, the store holds at most one snapshot per date
C29_OneSnapshotPerDate ==
  ScraperIdle /\ statsFile # Null => OnePerDate(statsFile.dailySnapshots)

\* C30: the trim of a daily run leaves at most 365 entries, which are the
\* last entries of the list in their order, the snapshot of the run among
\* them, and the store written is that list
C30_KeepsLastYear ==
  [][spc = "trim" =>
       LET before == stats.dailySnapshots
           after == stats'.dailySnapshots
       IN  /\ spc' = "done" /\ scraperExit' = 0
           /\ statsFile'.dailySnapshots = after
           /\ Len(after) <= KEEP
           /\ Len(after) <= Len(before)
           /\ after = SubSeq(before, Len(before) - Len(after) + 1, Len(before))
           /\ \E i \in 1..Len(after) : after[i] = snapshot]_vars

\* a daily run on a new day has found 365 snapshots in the store: the oldest
\* is gone, the second is now the first and the snapshot of the run the last
C30_Witness ==
  /\ spc = "done" /\ scraperExit = 0 /\ daily /\ snapshot # Null
  /\ statsFile # Null /\ Len(statsFile.dailySnapshots) = KEEP
  /\ statsFile.dailySnapshots[KEEP] = snapshot
  /\ statsFile.dailySnapshots[1].data = 2
  /\ snapshot.data \in ScrapedData
====
